---- MODULE Spec2Model ----
(***************************************************************************)
(* Iterative pseudo-labeling mixin (IPLMixin, ipl_mixin.py).               *)
(*                                                                         *)
(* Spec      : the phase controller, one maybe_do_ipl call per step.       *)
(* SpecBuild : one distributed non-tarred cache build                      *)
(*             (create_cache_hypotheses), one step per rank and statement. *)
(***************************************************************************)
EXTENDS Integers, Sequences, FiniteSets, TLC

\* ------------------------------------------------------------------------
\* Bounds of the model
\* ------------------------------------------------------------------------
MaxM == 2
MaxK == 2
NegStart == 1
MaxCalls == 7
MaxDatasets == 2
MaxWorld == 2
MaxRecords == 2
MaxShards == 3
MaxBuilds == 3
MaxSetupCalls == 1
MaxLines == 2
MaxOwned == 2
FracDen == 2
MaxWords == 2
MaxBeams == 2

\* ------------------------------------------------------------------------
\* Program constants
\* ------------------------------------------------------------------------
\* value stored in n_l_epochs once the training sets were updated
N_L_DONE == -1
\* trainer.reload_dataloaders_every_n_epochs once pseudo-labels are in use
RELOAD_EVERY_EPOCH == 1

VARIABLES
    \* ---- configuration (fixed after setup_ipl) ----
    cfg_ipl,            \* self.cfg.get("ipl") is set
    is_tarred,          \* self.cfg.train_ds.get("is_tarred", False)
    use_lhotse,         \* self.cfg.train_ds.get("use_lhotse", False)
    dist_init,          \* torch.distributed.is_initialized()
    ipl_tarred_audio_filepaths,   \* _ipl_params['tarred_audio_filepaths']
    ipl_limit_train_batches,      \* _ipl_params.get('limit_train_batches'), 0 = unset
    ipl_ndatasets,      \* len(_ipl_params['all_cache_manifests'])
    \* ---- IPL state ----
    m_epochs,           \* _ipl_params['m_epochs']
    n_l_epochs,         \* _ipl_params['n_l_epochs']
    \* ---- host model / trainer / training configuration ----
    encoder_dropout,    \* "initial" or "ipl" (the value of _ipl_params['dropout'])
    reload_dataloaders_every_n_epochs,
    limit_train_batches,
    manifest_filepath,  \* cfg.train_ds.manifest_filepath
    tarred_audio_filepaths,  \* cfg.train_ds.tarred_audio_filepaths
    cache_audio,        \* cfg.train_ds.cache_audio: "unset" / FALSE
    update_limit_train_batches,  \* cfg.train_ds.update_limit_train_batches
    \* ---- observation of the calls made so far ----
    M0, K0,             \* the counters as configured
    trace,              \* one record per maybe_do_ipl call: what the call did
    final_cache_created, \* number of create_final_cache_manifest invocations
    \* ---- one cache build of create_cache_hypotheses, per rank ----
    world_size,         \* torch.distributed.get_world_size(), 1 when not distributed
    update_whole_cache, \* the argument of the build
    n_update_data,      \* len(update_data): the number of candidate records
    pc,                 \* rank -> position in create_cache_hypotheses
    hypotheses,         \* rank -> number of hypotheses the labeling returned
    arrived,            \* rank -> number of collective calls entered so far
    gathered_data,      \* rank -> per-rank candidate counts after all_gather_object
    gathered_hypotheses,\* rank -> per-rank hypothesis counts after all_gather_object
    writing,            \* ranks inside write_cache_manifest
    cache_writes        \* the write_cache_manifest invocations of the build, in order

ctlVars == <<cfg_ipl, is_tarred, use_lhotse, dist_init, ipl_tarred_audio_filepaths,
             ipl_limit_train_batches, ipl_ndatasets, m_epochs, n_l_epochs,
             encoder_dropout, reload_dataloaders_every_n_epochs, limit_train_batches,
             manifest_filepath, tarred_audio_filepaths, cache_audio,
             update_limit_train_batches, M0, K0, trace, final_cache_created>>

\* ------------------------------------------------------------------------
\* The tarred builders (create_tar_cache_hypotheses, update_tar_cache_hypotheses)
\* ------------------------------------------------------------------------
VARIABLES
    t_world,        \* self.world_size
    t_shards,       \* dataset -> number of manifest shards (as many tar shards)
    t_build,        \* rank -> builds started before the current one (0: the full build)
    t_ds,           \* rank -> dataset of the loop in progress
    t_pc,           \* rank -> position in the builder
    t_arrived,      \* rank -> number of barriers entered so far
    t_expanded,     \* rank -> the rank's paths of the dataset (expand_sharded_filepaths)
    t_targets,      \* rank -> cache files the rank writes for the dataset
    t_writing,      \* rank -> cache files the rank has open for writing
    t_finished,     \* rank -> <<build, dataset>> pairs whose write has returned
    t_files,        \* cache files on disk
    t_log,          \* every write: [path, rank, build]
    t_reading,      \* create_final_cache_manifest calls in progress: [rank, ds]
    t_final,        \* final cache manifests created: [ds, rank, build]
    t_setups        \* rank -> setup_training_data calls made

tarVars == <<t_world, t_shards, t_build, t_ds, t_pc, t_arrived, t_expanded,
             t_targets, t_writing, t_finished, t_files, t_log, t_reading, t_final,
             t_setups>>

\* no tarred build is being observed
TarIdle ==
    /\ t_world = 1
    /\ t_shards = <<>>
    /\ t_build = [r \in {0} |-> 0]
    /\ t_ds = [r \in {0} |-> 1]
    /\ t_pc = [r \in {0} |-> "done"]
    /\ t_arrived = [r \in {0} |-> 0]
    /\ t_expanded = [r \in {0} |-> <<>>]
    /\ t_targets = [r \in {0} |-> <<>>]
    /\ t_writing = [r \in {0} |-> {}]
    /\ t_finished = [r \in {0} |-> {}]
    /\ t_files = {}
    /\ t_log = {}
    /\ t_reading = {}
    /\ t_final = {}
    /\ t_setups = [r \in {0} |-> 0]

\* ------------------------------------------------------------------------
\* Construction: setup_ipl
\* ------------------------------------------------------------------------
VARIABLES
    s_has_ipl,       \* self.cfg.get("ipl") is not None
    s_config,        \* the keys of the ipl configuration
    s_trainer,       \* "none": no trainer; "no_max_steps": max_steps < 0; "max_steps"
    s_is_tarred,     \* self.cfg.train_ds.get("is_tarred", False)
    s_phase,         \* "init", "ok", or the error setup_ipl raised
    s_params,        \* the keys of self._ipl_params
    s_warned,        \* the keys logged as unsupported
    s_names_derived, \* number of formulate_cache_manifest_names calls
    s_calls,         \* number of maybe_do_ipl calls on the constructed model
    s_build          \* "none", or how the last build_cache of those calls ended

setupVars == <<s_has_ipl, s_config, s_trainer, s_is_tarred, s_phase, s_params,
               s_warned, s_names_derived, s_calls, s_build>>

\* no construction is being observed
SetupIdle ==
    /\ s_has_ipl = FALSE
    /\ s_config = {}
    /\ s_trainer = "none"
    /\ s_is_tarred = FALSE
    /\ s_phase = "ok"
    /\ s_params = {}
    /\ s_warned = {}
    /\ s_names_derived = 0
    /\ s_calls = 0
    /\ s_build = "none"

\* ------------------------------------------------------------------------
\* Cache content of a non-tarred build
\* ------------------------------------------------------------------------
VARIABLES
    c_world,    \* torch.distributed.get_world_size(), 1 when not distributed
    c_whole,    \* update_whole_cache
    c_n,        \* len(manifest_data): records of the manifest
    c_weight,   \* dataset weight, in FracDen-ths
    c_p_cache,  \* p_cache, in FracDen-ths
    c_pc,       \* rank -> "sample", "ready", "done"
    c_update,   \* rank -> update_data, as the set of manifest positions it holds
    c_cache,    \* the cache manifest: records [id, gen]; gen 0 is the prior text
    c_written   \* write_cache_manifest has run

cacheVars == <<c_world, c_whole, c_n, c_weight, c_p_cache, c_pc, c_update, c_cache,
               c_written>>

\* no cache content is being observed
CacheIdle ==
    /\ c_world = 1
    /\ c_whole = FALSE
    /\ c_n = 0
    /\ c_weight = 0
    /\ c_p_cache = 0
    /\ c_pc = [r \in {0} |-> "done"]
    /\ c_update = [r \in {0} |-> {}]
    /\ c_cache = <<>>
    /\ c_written = FALSE

\* ------------------------------------------------------------------------
\* One worker, one dataset of a tarred build
\* ------------------------------------------------------------------------
VARIABLES
    w_full,            \* create_tar_cache_hypotheses (else update_tar_cache_hypotheses)
    w_hybrid,          \* self._ipl_model_type == "hybrid"
    w_sizes,           \* records of each manifest shard the worker owns, in shard order
    w_p_cache,         \* p_cache, in FracDen-ths
    w_pc,              \* "loop", "label", "write", "done"
    w_temp,            \* the temporary manifest written for each shard processed so far
    w_transcriptions,  \* transcriptions
    w_indices,         \* all_indices
    w_update_size,     \* update_size
    w_passed,          \* target_transcripts of the labeling call
    w_call             \* the indices and update_size of the write_tar_cache_manifest call

shardVars == <<w_full, w_hybrid, w_sizes, w_p_cache, w_pc, w_temp, w_transcriptions,
               w_indices, w_update_size, w_passed, w_call>>

NoTargets == [given |-> FALSE, list |-> <<>>]

NoCall == [indices |-> <<>>, update_size |-> 0]

\* no worker is being observed
ShardIdle ==
    /\ w_full = FALSE
    /\ w_hybrid = FALSE
    /\ w_sizes = <<>>
    /\ w_p_cache = 0
    /\ w_pc = "done"
    /\ w_temp = <<>>
    /\ w_transcriptions = <<>>
    /\ w_indices = <<>>
    /\ w_update_size = 0
    /\ w_passed = NoTargets
    /\ w_call = NoCall

\* ------------------------------------------------------------------------
\* One record of a labeling call under beam decoding
\* ------------------------------------------------------------------------
VARIABLES
    r_target,      \* target_transcripts[sample_idx + beams_idx], as its words
    r_beams,       \* the texts of the candidates of beams, in beam order
    r_best,        \* best_hyp[beams_idx].text
    r_restore_pc,  \* restore_pc
    r_model,       \* "none" until "hybrid" or "ctc" labeled the record
    r_hypothesis   \* the text appended to hypotheses

labelVars == <<r_target, r_beams, r_best, r_restore_pc, r_model, r_hypothesis>>

\* no labeling call is being observed
LabelIdle ==
    /\ r_target = <<>>
    /\ r_beams = <<>>
    /\ r_best = <<>>
    /\ r_restore_pc = FALSE
    /\ r_model = "idle"
    /\ r_hypothesis = <<>>

extVars == <<tarVars, setupVars, cacheVars, shardVars, labelVars>>

ExtIdle == TarIdle /\ SetupIdle /\ CacheIdle /\ ShardIdle /\ LabelIdle

\* ------------------------------------------------------------------------
\* Values of a path option: a plain string, or a list whose elements are
\* strings or lists of strings.  A path is a pair <<kind, dataset index>>.
\* ------------------------------------------------------------------------
Leaf(p) == [nested |-> FALSE, paths |-> <<p>>]
Nested(ps) == [nested |-> TRUE, paths |-> ps]
StrVal(p) == [isStr |-> TRUE, items |-> <<Leaf(p)>>]
ListVal(its) == [isStr |-> FALSE, items |-> its]

\* the path held by a string-valued option
StrOf(v) == v.items[1].paths[1]


\* ------------------------------------------------------------------------
\* combine_cache_hypotheses: one final cache manifest per dataset of
\* _ipl_params['all_cache_manifests'], each wrapped in a list.
\* ------------------------------------------------------------------------
FinalCachePath(d) ==
    IF use_lhotse THEN <<"cache_shard_pattern", d>>
    ELSE <<"cache_tarred_audio_manifest", d>>

combine_cache_hypotheses ==
    IF is_tarred
    THEN [d \in 1..ipl_ndatasets |-> Nested(<<FinalCachePath(d)>>)]
    ELSE <<>>

\* create_final_cache_manifest runs once per dataset, in non-lhotse tarred mode
FinalCachesCreatedByCombine ==
    IF is_tarred /\ ~use_lhotse THEN ipl_ndatasets ELSE 0

\* ------------------------------------------------------------------------
\* update_training_sets
\* ------------------------------------------------------------------------
\* faulty variant: the pseudo-labeled tar files are put first
UpdatedTarPaths_swapped(train, ipl) ==
    IF ipl.isStr
    THEN IF train.isStr
         THEN ListVal(<<Nested(<<StrOf(ipl)>>), Nested(<<StrOf(train)>>)>>)
         ELSE ListVal(<<Nested(<<StrOf(ipl)>>)>> \o train.items)
    ELSE LET base == IF train.isStr THEN <<Nested(<<StrOf(train)>>)>> ELSE train.items
         IN  ListVal(ipl.items \o base)

\* cfg.train_ds.tarred_audio_filepaths after the call (tarred mode)
UpdatedTarPaths(train, ipl) ==
    IF ipl.isStr
    THEN IF train.isStr
         THEN ListVal(<<Nested(<<StrOf(train)>>), Nested(<<StrOf(ipl)>>)>>)
         ELSE ListVal(Append(train.items, Nested(<<StrOf(ipl)>>)))
    ELSE LET base == IF train.isStr THEN <<Nested(<<StrOf(train)>>)>> ELSE train.items
         IN  ListVal(base \o ipl.items)

\* cfg.train_ds.manifest_filepath after the call (tarred mode)
UpdatedManifestsTarred(train, finals) ==
    LET base == IF train.isStr THEN <<Nested(<<StrOf(train)>>)>> ELSE train.items
    IN  ListVal(base \o finals)

\* cfg.train_ds.manifest_filepath after the call (non-tarred mode)
UpdatedManifests(train, cache_manifest) ==
    IF train.isStr
    THEN ListVal(Append(<<Leaf(StrOf(train))>>, Leaf(cache_manifest)))
    ELSE ListVal(Append(train.items, Leaf(cache_manifest)))

\* _ipl_params['cache_manifest'] of a non-tarred run
CacheManifest == <<"cache_manifest", 1>>

ManifestsAfterUpdate ==
    IF is_tarred
    THEN UpdatedManifestsTarred(manifest_filepath, combine_cache_hypotheses)
    ELSE UpdatedManifests(manifest_filepath, CacheManifest)

TarPathsAfterUpdate ==
    IF is_tarred
    THEN UpdatedTarPaths(tarred_audio_filepaths, ipl_tarred_audio_filepaths)
    ELSE tarred_audio_filepaths

LimitAfterUpdate ==
    IF is_tarred /\ ipl_limit_train_batches # 0
    THEN ipl_limit_train_batches
    ELSE limit_train_batches

\* ------------------------------------------------------------------------
\* maybe_do_ipl: the conditions of its branches
\* ------------------------------------------------------------------------
\* faulty variants of the branch conditions, used to show that the properties
\* below depend on them
InWarmup_inclusive(m) == m >= 0

InWarmup(m) == m > 0

\* the full build tied to the last warm-up epoch, which the warm-up branch
\* returns from
AtFirstBuild_one(m) == m = 1

AtFirstBuild_nonpositive(m) == m <= 0

AtFirstBuild(m) == m = 0

NeedsUpdate_never(fullBuilt) == FALSE

NeedsUpdate(fullBuilt) == ~fullBuilt

InDropoutHold_inclusive(m, n) == m = -1 /\ n >= 0

InDropoutHold_late(m, n) == m = -1 /\ n > 1

InDropoutHold_nonzero(m, n) == m = -1 /\ n # 0

InDropoutHold(m, n) == m = -1 /\ n > 0

TrainingSetsDue_nonpositive(n) == n <= 0

TrainingSetsDue(n) == n = 0

Decrement_up(x) == x + 1

Decrement(x) == x - 1

IfOps(c, ops) == IF c THEN ops ELSE <<>>

\* ------------------------------------------------------------------------
\* maybe_do_ipl, the whole call
\* ------------------------------------------------------------------------
maybe_do_ipl ==
    /\ Len(trace) < MaxCalls
    /\ LET skip   == ~cfg_ipl
           warm   == ~skip /\ InWarmup(m_epochs)
           full   == ~skip /\ ~warm /\ AtFirstBuild(m_epochs)
           m1     == IF warm \/ full THEN Decrement(m_epochs) ELSE m_epochs
           hold   == ~skip /\ ~warm /\ InDropoutHold(m1, n_l_epochs)
           active == ~skip /\ ~warm /\ ~hold
           inc    == active /\ NeedsUpdate(full)
           upd    == active /\ TrainingSetsDue(n_l_epochs)
           n1     == IF hold THEN Decrement(n_l_epochs)
                     ELSE IF upd THEN N_L_DONE ELSE n_l_epochs
           ops    == IfOps(full, <<"build_cache_full", "set_dropout">>)
                     \o IfOps(inc, <<"build_cache_incremental">>)
                     \o IfOps(upd, <<"update_training_sets", "set_reload_policy">>)
                     \o IfOps(active /\ dist_init, <<"barrier">>)
                     \o IfOps(active, <<"setup_training_data">>)
       IN  /\ m_epochs' = m1
           /\ n_l_epochs' = n1
           /\ encoder_dropout' = IF full THEN "ipl" ELSE encoder_dropout
           /\ manifest_filepath' =
                 IF upd THEN ManifestsAfterUpdate ELSE manifest_filepath
           /\ tarred_audio_filepaths' =
                 IF upd THEN TarPathsAfterUpdate ELSE tarred_audio_filepaths
           /\ limit_train_batches' =
                 IF upd THEN LimitAfterUpdate ELSE limit_train_batches
           /\ final_cache_created' =
                 IF upd THEN final_cache_created + FinalCachesCreatedByCombine
                 ELSE final_cache_created
           /\ reload_dataloaders_every_n_epochs' =
                 IF upd THEN RELOAD_EVERY_EPOCH ELSE reload_dataloaders_every_n_epochs
           /\ cache_audio' = IF active THEN "False" ELSE cache_audio
           /\ update_limit_train_batches' =
                 IF active THEN (IF use_lhotse THEN "False" ELSE "True")
                 ELSE update_limit_train_batches
           /\ trace' = Append(trace, [m_in |-> m_epochs, n_in |-> n_l_epochs,
                                      m_out |-> m1, n_out |-> n1, ops |-> ops])
    /\ UNCHANGED <<cfg_ipl, is_tarred, use_lhotse, dist_init,
                   ipl_tarred_audio_filepaths, ipl_limit_train_batches,
                   ipl_ndatasets, M0, K0>>

\* ------------------------------------------------------------------------
\* The state after construction (setup_ipl done, no epoch finished yet)
\* ------------------------------------------------------------------------
TrainPathValues(kind) ==
    {StrVal(<<kind, 1>>), ListVal(<<Nested(<<<<kind, 1>>>>)>>),
     ListVal(<<Nested(<<<<kind, 1>>>>), Nested(<<<<kind, 2>>>>)>>)}

TrainManifestValues ==
    IF is_tarred THEN TrainPathValues("train_manifest")
    ELSE {StrVal(<<"train_manifest", 1>>), ListVal(<<Leaf(<<"train_manifest", 1>>)>>),
          ListVal(<<Leaf(<<"train_manifest", 1>>), Leaf(<<"train_manifest", 2>>)>>)}

IplTarList(n) == ListVal([d \in 1..n |-> Nested(<<<<"ipl_tar", d>>>>)])

InitCtl ==
    /\ cfg_ipl \in BOOLEAN
    /\ is_tarred \in BOOLEAN
    /\ use_lhotse \in BOOLEAN
    /\ dist_init \in BOOLEAN
    /\ ipl_ndatasets \in (IF cfg_ipl /\ is_tarred THEN 1..MaxDatasets ELSE {1})
    /\ ipl_tarred_audio_filepaths \in
          (IF cfg_ipl /\ is_tarred
           THEN (IF ipl_ndatasets = 1 THEN {StrVal(<<"ipl_tar", 1>>)} ELSE {})
                \cup {IplTarList(ipl_ndatasets)}
           ELSE {StrVal(<<"ipl_tar", 1>>)})
    /\ ipl_limit_train_batches \in (IF cfg_ipl /\ is_tarred THEN {0, 1} ELSE {0})
    /\ m_epochs \in (IF cfg_ipl THEN (0 - NegStart)..MaxM ELSE {0})
    /\ n_l_epochs \in (IF cfg_ipl THEN (0 - NegStart)..MaxK ELSE {0})
    /\ M0 = m_epochs
    /\ K0 = n_l_epochs
    /\ encoder_dropout = "initial"
    /\ reload_dataloaders_every_n_epochs = 0
    /\ limit_train_batches = 0
    /\ manifest_filepath \in TrainManifestValues
    /\ tarred_audio_filepaths \in
          (IF is_tarred THEN TrainPathValues("train_tar") ELSE {StrVal(<<"none", 0>>)})
    /\ cache_audio = "unset"
    /\ update_limit_train_batches = "unset"
    /\ trace = <<>>
    /\ final_cache_created = 0


\* ========================================================================
\* create_cache_hypotheses: one build, every rank running it
\* ========================================================================
buildVars == <<world_size, update_whole_cache, n_update_data, pc, hypotheses,
               arrived, gathered_data, gathered_hypotheses, writing, cache_writes>>

Ranks == 0..(world_size - 1)

\* a blocking collective (barrier, all_gather_object): the k-th collective call
\* of a rank returns once every rank has entered its k-th collective call
CollectiveDone(r) == \A q \in Ranks : arrived[q] >= arrived[r]

\* faulty variant: every rank takes the writer branch
IsWriter_any(r) == TRUE

\* torch.distributed.get_rank() == 0
IsWriter(r) == r = 0

\* position after the labeling call
AfterLabel == IF dist_init THEN "barrier1" ELSE "write"

\* position after the gathers
AfterGather(r) == IF IsWriter(r) THEN "write" ELSE "barrier2"

\* position after write_cache_manifest returned
AfterWrite == IF dist_init THEN "barrier2" ELSE "done"

IsCollective(p) == p \in {"barrier1", "gather_data", "gather_hypotheses", "barrier2"}

\* move rank r to position p, entering the collective call found there
Goto(r, p) ==
    /\ pc' = [pc EXCEPT ![r] = p]
    /\ arrived' = [arrived EXCEPT ![r] = IF IsCollective(p) THEN @ + 1 ELSE @]

\* the labeling collaborator returned h hypotheses for the temporary manifest of
\* n_update_data records: one per record its dataloader yielded, which may be
\* fewer than the manifest holds
Label(r) ==
    /\ pc[r] = "label"
    /\ \E h \in 0..n_update_data : hypotheses' = [hypotheses EXCEPT ![r] = h]
    /\ Goto(r, AfterLabel)
    /\ UNCHANGED <<ctlVars, extVars, world_size, update_whole_cache, n_update_data, gathered_data,
                   gathered_hypotheses, writing, cache_writes>>

Barrier1(r) ==
    /\ pc[r] = "barrier1"
    /\ CollectiveDone(r)
    /\ Goto(r, "gather_data")
    /\ UNCHANGED <<ctlVars, extVars, world_size, update_whole_cache, n_update_data, hypotheses,
                   gathered_data, gathered_hypotheses, writing, cache_writes>>

GatherData(r) ==
    /\ pc[r] = "gather_data"
    /\ CollectiveDone(r)
    /\ gathered_data' = [gathered_data EXCEPT ![r] = [i \in 1..world_size |-> n_update_data]]
    /\ Goto(r, "gather_hypotheses")
    /\ UNCHANGED <<ctlVars, extVars, world_size, update_whole_cache, n_update_data, hypotheses,
                   gathered_hypotheses, writing, cache_writes>>

GatherHypotheses(r) ==
    /\ pc[r] = "gather_hypotheses"
    /\ CollectiveDone(r)
    /\ gathered_hypotheses' =
          [gathered_hypotheses EXCEPT ![r] = [i \in 1..world_size |-> hypotheses[i - 1]]]
    /\ Goto(r, AfterGather(r))
    /\ UNCHANGED <<ctlVars, extVars, world_size, update_whole_cache, n_update_data, hypotheses,
                   gathered_data, writing, cache_writes>>

\* the arguments of the write_cache_manifest call of rank r
WriteArgs(r) ==
    IF dist_init
    THEN [rank |-> r, hyps |-> gathered_hypotheses[r], data |-> gathered_data[r],
          whole |-> update_whole_cache]
    ELSE [rank |-> r, hyps |-> <<hypotheses[r]>>, data |-> <<n_update_data>>,
          whole |-> update_whole_cache]

WriteBegin(r) ==
    /\ pc[r] = "write"
    /\ writing' = writing \cup {r}
    /\ cache_writes' = Append(cache_writes, WriteArgs(r))
    /\ Goto(r, "writing")
    /\ UNCHANGED <<ctlVars, extVars, world_size, update_whole_cache, n_update_data, hypotheses,
                   gathered_data, gathered_hypotheses>>

WriteEnd(r) ==
    /\ pc[r] = "writing"
    /\ writing' = writing \ {r}
    /\ Goto(r, AfterWrite)
    /\ UNCHANGED <<ctlVars, extVars, world_size, update_whole_cache, n_update_data, hypotheses,
                   gathered_data, gathered_hypotheses, cache_writes>>

Barrier2(r) ==
    /\ pc[r] = "barrier2"
    /\ CollectiveDone(r)
    /\ Goto(r, "done")
    /\ UNCHANGED <<ctlVars, extVars, world_size, update_whole_cache, n_update_data, hypotheses,
                   gathered_data, gathered_hypotheses, writing, cache_writes>>

\* the build called from maybe_do_ipl: full when entered with m_epochs = 0
InitBuild ==
    /\ world_size \in (IF dist_init THEN 1..MaxWorld ELSE {1})
    /\ update_whole_cache = AtFirstBuild(m_epochs)
    /\ n_update_data \in 0..MaxRecords
    /\ pc = [r \in Ranks |-> "label"]
    /\ hypotheses = [r \in Ranks |-> 0]
    /\ arrived = [r \in Ranks |-> 0]
    /\ gathered_data = [r \in Ranks |-> <<>>]
    /\ gathered_hypotheses = [r \in Ranks |-> <<>>]
    /\ writing = {}
    /\ cache_writes = <<>>

\* no build is being observed
BuildIdle ==
    /\ world_size = 1
    /\ update_whole_cache = FALSE
    /\ n_update_data = 0
    /\ pc = [r \in Ranks |-> "done"]
    /\ hypotheses = [r \in Ranks |-> 0]
    /\ arrived = [r \in Ranks |-> 0]
    /\ gathered_data = [r \in Ranks |-> <<>>]
    /\ gathered_hypotheses = [r \in Ranks |-> <<>>]
    /\ writing = {}
    /\ cache_writes = <<>>

\* the controller state in which a non-tarred build is entered
BuildEntry ==
    /\ InitCtl
    /\ cfg_ipl
    /\ ~is_tarred
    /\ ~use_lhotse
    /\ m_epochs \in {0, -1}
    /\ n_l_epochs \in 0..1
    /\ ~manifest_filepath.isStr
    /\ Len(manifest_filepath.items) = 1

\* ========================================================================
\* create_tar_cache_hypotheses / update_tar_cache_hypotheses, every rank
\* running the full build and then incremental refreshes
\* ========================================================================
\* the variables the tarred builders leave alone
tarOthers == <<ctlVars, buildVars, setupVars, cacheVars, shardVars, labelVars>>

TRanks == 0..(t_world - 1)

\* a file: its directory (one per dataset), how many times the cache prefix was
\* put in front of the shard's file name, and the shard's file name
ManifestShard(d, s) == [dir |-> d, cache |-> 0, shard |-> s]

\* the manifest shards of dataset d, as its brace pattern expands
ManifestShards(d) == [i \in 1..t_shards[d] |-> ManifestShard(d, i - 1)]

\* os.path.join(base_path, f'{cache_prefix}_cache_{filename}')
CacheFileOf_fixedname(m) == [m EXCEPT !.cache = @ + 1, !.shard = 0]

CacheFileOf(m) == [m EXCEPT !.cache = @ + 1]

\* formulate_cache_manifest_names(..., is_tarred=True): the cache file of a
\* manifest shard is named from the shard's file name and the prefix
FormulatedCacheName(m) == [m EXCEPT !.cache = 1]

\* _ipl_params['all_cache_manifests'][d][0], expanded
all_cache_manifests(d) ==
    [i \in 1..t_shards[d] |-> FormulatedCacheName(ManifestShard(d, i - 1))]

\* expand_sharded_filepaths(paths, shard_strategy='scatter', world_size,
\* global_rank): shard i goes to worker i mod world_size
ScatterCount(n, w, r) == IF r < n THEN ((n - 1 - r) \div w) + 1 ELSE 0

expand_sharded_filepaths(paths, w, r) ==
    [k \in 1..ScatterCount(Len(paths), w, r) |-> paths[r + (k - 1) * w + 1]]

\* build 0 is create_tar_cache_hypotheses, the later ones update_tar_cache_hypotheses
IsFullBuild(r) == t_build[r] = 0

\* the first argument of the builder, for the dataset in progress
ExpandInput(r) ==
    IF IsFullBuild(r) THEN ManifestShards(t_ds[r]) ELSE all_cache_manifests(t_ds[r])

\* faulty variant: the rank is not passed on
OwnedPaths_rank0(r) == expand_sharded_filepaths(ExpandInput(r), t_world, 0)

\* the rank's share: world_size=self.world_size, global_rank=self.global_rank
OwnedPaths(r) == expand_sharded_filepaths(ExpandInput(r), t_world, r)

\* faulty variant: the refresh derives the cache names once more
WriteTargets_renamed(r) ==
    [i \in 1..Len(t_expanded[r]) |-> CacheFileOf(t_expanded[r][i])]

\* the first argument of write_tar_cache_manifest: cache_manifest in the full
\* build, the expanded cache paths themselves in the refresh
WriteTargets(r) ==
    IF IsFullBuild(r)
    THEN [i \in 1..Len(t_expanded[r]) |-> CacheFileOf(t_expanded[r][i])]
    ELSE t_expanded[r]

\* faulty variant: a barrier that does not wait
TCollectiveDone_nowait(r) == TRUE

\* a barrier returns once every rank has entered as many barriers
TCollectiveDone(r) == \A q \in TRanks : t_arrived[q] >= t_arrived[r]

IsBarrier(p) ==
    p \in {"barrier_pre", "barrier_in", "barrier_out", "barrier_combine", "barrier_end"}

TGoto(r, p) ==
    /\ t_pc' = [t_pc EXCEPT ![r] = p]
    /\ t_arrived' = [t_arrived EXCEPT ![r] = IF IsBarrier(p) THEN @ + 1 ELSE @]

\* where a dataset's loop body starts: the full build opens it with a barrier
DatasetStart(b) == IF b = 0 /\ dist_init THEN "barrier_in" ELSE "expand"

\* where the builder starts: the refresh has one barrier before its loop
BuildStart(b) ==
    IF Len(t_shards) = 0 THEN "return"
    ELSE IF b > 0 /\ dist_init THEN "barrier_pre" ELSE DatasetStart(b)

\* the rest of an ACTIVE call after update_training_sets
AfterCombine == IF dist_init THEN "barrier_end" ELSE "setup"

\* the rest of the maybe_do_ipl call after its build: nothing in DROPOUT_HOLD;
\* update_training_sets, hence combine_cache_hypotheses, in the call that
\* finds n_l_epochs = 0, which is the call of build n_l_epochs
AfterBuild(b) ==
    IF b < n_l_epochs THEN "return"
    ELSE IF b = n_l_epochs THEN "combine"
    ELSE AfterCombine

\* faulty variant: every rank creates the final cache manifest
IsCreator_any(r) == TRUE

\* torch.distributed.get_rank() == 0, or the only process
IsCreator(r) == r = 0

\* the rank enters the builder
TStartBuild(r) ==
    /\ t_pc[r] = "call"
    /\ TGoto(r, BuildStart(t_build[r]))
    /\ t_ds' = [t_ds EXCEPT ![r] = 1]
    /\ UNCHANGED <<tarOthers, t_world, t_shards, t_build, t_expanded, t_targets,
                   t_writing, t_finished, t_files, t_log,
                   t_reading, t_final, t_setups>>

\* the barrier before the loop of update_tar_cache_hypotheses
TBarrierPre(r) ==
    /\ t_pc[r] = "barrier_pre"
    /\ TCollectiveDone(r)
    /\ TGoto(r, "expand")
    /\ UNCHANGED <<tarOthers, t_world, t_shards, t_build, t_ds, t_expanded, t_targets,
                   t_writing, t_finished, t_files, t_log,
                   t_reading, t_final, t_setups>>

\* the barrier that opens a dataset in create_tar_cache_hypotheses
TBarrierIn(r) ==
    /\ t_pc[r] = "barrier_in"
    /\ TCollectiveDone(r)
    /\ TGoto(r, "expand")
    /\ UNCHANGED <<tarOthers, t_world, t_shards, t_build, t_ds, t_expanded, t_targets,
                   t_writing, t_finished, t_files, t_log,
                   t_reading, t_final, t_setups>>

\* shard ownership of the dataset
TExpand(r) ==
    /\ t_pc[r] = "expand"
    /\ t_expanded' = [t_expanded EXCEPT ![r] = OwnedPaths(r)]
    /\ TGoto(r, "label")
    /\ UNCHANGED <<tarOthers, t_world, t_shards, t_build, t_ds, t_targets,
                   t_writing, t_finished, t_files, t_log,
                   t_reading, t_final, t_setups>>

\* reading the owned shards, the temporary manifests and the labeling call; with
\* no owned shard expanded_audio[0] raises and the rank leaves the builder
TLabel(r) ==
    /\ t_pc[r] = "label"
    /\ IF Len(t_expanded[r]) = 0
       THEN /\ TGoto(r, "failed")
            /\ UNCHANGED t_targets
       ELSE /\ TGoto(r, "write")
            /\ t_targets' = [t_targets EXCEPT ![r] = WriteTargets(r)]
    /\ UNCHANGED <<tarOthers, t_world, t_shards, t_build, t_ds, t_expanded,
                   t_writing, t_finished, t_files, t_log,
                   t_reading, t_final, t_setups>>

Range(f) == {f[i] : i \in DOMAIN f}

\* write_tar_cache_manifest opens the rank's cache files
TWriteBegin(r) ==
    /\ t_pc[r] = "write"
    /\ t_writing' = [t_writing EXCEPT ![r] = Range(t_targets[r])]
    /\ t_files' = t_files \cup Range(t_targets[r])
    /\ t_log' = t_log \cup {[path |-> f, rank |-> r, build |-> t_build[r]] :
                              f \in Range(t_targets[r])}
    /\ TGoto(r, "writing")
    /\ UNCHANGED <<tarOthers, t_world, t_shards, t_build, t_ds, t_expanded, t_targets,
                   t_finished,
                   t_reading, t_final, t_setups>>

\* write_tar_cache_manifest returns
TWriteEnd(r) ==
    /\ t_pc[r] = "writing"
    /\ t_writing' = [t_writing EXCEPT ![r] = {}]
    /\ t_finished' = [t_finished EXCEPT ![r] = @ \cup {<<t_build[r], t_ds[r]>>}]
    /\ TGoto(r, IF dist_init THEN "barrier_out" ELSE "next")
    /\ UNCHANGED <<tarOthers, t_world, t_shards, t_build, t_ds, t_expanded, t_targets,
                   t_files, t_log,
                   t_reading, t_final, t_setups>>

\* the barrier that closes a dataset
TBarrierOut(r) ==
    /\ t_pc[r] = "barrier_out"
    /\ TCollectiveDone(r)
    /\ TGoto(r, "next")
    /\ UNCHANGED <<tarOthers, t_world, t_shards, t_build, t_ds, t_expanded, t_targets,
                   t_writing, t_finished, t_files, t_log,
                   t_reading, t_final, t_setups>>

\* the loop goes on to the next dataset, or ends
TNextDataset(r) ==
    /\ t_pc[r] = "next"
    /\ IF t_ds[r] < Len(t_shards)
       THEN /\ t_ds' = [t_ds EXCEPT ![r] = @ + 1]
            /\ TGoto(r, DatasetStart(t_build[r]))
       ELSE /\ t_ds' = [t_ds EXCEPT ![r] = 1]
            /\ TGoto(r, AfterBuild(t_build[r]))
    /\ t_expanded' = [t_expanded EXCEPT ![r] = <<>>]
    /\ t_targets' = [t_targets EXCEPT ![r] = <<>>]
    /\ UNCHANGED <<tarOthers, t_world, t_shards, t_build, t_writing, t_finished,
                   t_files, t_log,
                   t_reading, t_final, t_setups>>

\* combine_cache_hypotheses, one dataset: the creator opens the per-shard cache
\* files of the dataset, the other ranks go to the barrier
TCombineBegin(r) ==
    /\ t_pc[r] = "combine"
    /\ IF IsCreator(r)
       THEN /\ t_reading' = t_reading \cup {[rank |-> r, ds |-> t_ds[r]]}
            /\ TGoto(r, "combining")
       ELSE /\ t_reading' = t_reading
            /\ TGoto(r, "barrier_combine")
    /\ UNCHANGED <<tarOthers, t_world, t_shards, t_build, t_ds, t_expanded, t_targets,
                   t_writing, t_finished, t_files, t_log, t_final, t_setups>>

\* create_final_cache_manifest returns
TCombineEnd(r) ==
    /\ t_pc[r] = "combining"
    /\ t_reading' = t_reading \ {[rank |-> r, ds |-> t_ds[r]]}
    /\ t_final' = t_final \cup {[ds |-> t_ds[r], rank |-> r, build |-> t_build[r]]}
    /\ TGoto(r, IF dist_init THEN "barrier_combine" ELSE "combine_next")
    /\ UNCHANGED <<tarOthers, t_world, t_shards, t_build, t_ds, t_expanded, t_targets,
                   t_writing, t_finished, t_files, t_log, t_setups>>

\* the barrier after the creation of a dataset's final cache manifest
TBarrierCombine(r) ==
    /\ t_pc[r] = "barrier_combine"
    /\ TCollectiveDone(r)
    /\ TGoto(r, "combine_next")
    /\ UNCHANGED <<tarOthers, t_world, t_shards, t_build, t_ds, t_expanded, t_targets,
                   t_writing, t_finished, t_files, t_log, t_reading, t_final, t_setups>>

\* the loop of combine_cache_hypotheses goes on to the next dataset, or ends
TCombineNext(r) ==
    /\ t_pc[r] = "combine_next"
    /\ IF t_ds[r] < Len(t_shards)
       THEN /\ t_ds' = [t_ds EXCEPT ![r] = @ + 1]
            /\ TGoto(r, "combine")
       ELSE /\ t_ds' = [t_ds EXCEPT ![r] = 1]
            /\ TGoto(r, AfterCombine)
    /\ UNCHANGED <<tarOthers, t_world, t_shards, t_build, t_expanded, t_targets,
                   t_writing, t_finished, t_files, t_log, t_reading, t_final, t_setups>>

\* the barrier of maybe_do_ipl before the training data is set up again
TBarrierEnd(r) ==
    /\ t_pc[r] = "barrier_end"
    /\ TCollectiveDone(r)
    /\ TGoto(r, "setup")
    /\ UNCHANGED <<tarOthers, t_world, t_shards, t_build, t_ds, t_expanded, t_targets,
                   t_writing, t_finished, t_files, t_log, t_reading, t_final, t_setups>>

\* setup_training_data
TSetupTrainingData(r) ==
    /\ t_pc[r] = "setup"
    /\ t_setups' = [t_setups EXCEPT ![r] = @ + 1]
    /\ TGoto(r, "return")
    /\ UNCHANGED <<tarOthers, t_world, t_shards, t_build, t_ds, t_expanded, t_targets,
                   t_writing, t_finished, t_files, t_log, t_reading, t_final>>

\* maybe_do_ipl returns; the next epoch boundary calls the refresh
TReturn(r) ==
    /\ t_pc[r] = "return"
    /\ IF t_build[r] + 1 < MaxBuilds
       THEN /\ t_build' = [t_build EXCEPT ![r] = @ + 1]
            /\ TGoto(r, "call")
       ELSE /\ t_build' = t_build
            /\ TGoto(r, "done")
    /\ UNCHANGED <<tarOthers, t_world, t_shards, t_ds, t_expanded, t_targets,
                   t_writing, t_finished, t_files, t_log,
                   t_reading, t_final, t_setups>>

\* the controller state in which the tarred builds run
TarEntry ==
    /\ InitCtl
    /\ cfg_ipl
    /\ is_tarred
    /\ ~use_lhotse
    /\ ipl_limit_train_batches = 0
    /\ m_epochs = 0
    /\ n_l_epochs \in 0..1
    /\ manifest_filepath.isStr
    /\ tarred_audio_filepaths.isStr

InitTar ==
    /\ t_world \in (IF dist_init THEN 1..MaxWorld ELSE {1})
    /\ t_shards \in [1..ipl_ndatasets -> 1..MaxShards]
    /\ t_build = [r \in TRanks |-> 0]
    /\ t_ds = [r \in TRanks |-> 1]
    /\ t_pc = [r \in TRanks |-> "call"]
    /\ t_arrived = [r \in TRanks |-> 0]
    /\ t_expanded = [r \in TRanks |-> <<>>]
    /\ t_targets = [r \in TRanks |-> <<>>]
    /\ t_writing = [r \in TRanks |-> {}]
    /\ t_finished = [r \in TRanks |-> {}]
    /\ t_files = {}
    /\ t_log = {}
    /\ t_reading = {}
    /\ t_final = {}
    /\ t_setups = [r \in TRanks |-> 0]

InitTarSpec == TarEntry /\ BuildIdle /\ SetupIdle /\ CacheIdle /\ ShardIdle /\ LabelIdle /\ InitTar

NextTar ==
    \/ \E r \in TRanks : TStartBuild(r)
    \/ \E r \in TRanks : TBarrierPre(r)
    \/ \E r \in TRanks : TBarrierIn(r)
    \/ \E r \in TRanks : TExpand(r)
    \/ \E r \in TRanks : TLabel(r)
    \/ \E r \in TRanks : TWriteBegin(r)
    \/ \E r \in TRanks : TWriteEnd(r)
    \/ \E r \in TRanks : TBarrierOut(r)
    \/ \E r \in TRanks : TNextDataset(r)
    \/ \E r \in TRanks : TCombineBegin(r)
    \/ \E r \in TRanks : TCombineEnd(r)
    \/ \E r \in TRanks : TBarrierCombine(r)
    \/ \E r \in TRanks : TCombineNext(r)
    \/ \E r \in TRanks : TBarrierEnd(r)
    \/ \E r \in TRanks : TSetupTrainingData(r)
    \/ \E r \in TRanks : TReturn(r)

\* ========================================================================
\* setup_ipl and _set_ipl_params
\* ========================================================================
RequiredParams_short ==
    {"m_epochs", "manifest_filepath", "is_tarred", "dropout", "n_l_epochs"}

RequiredParams ==
    {"m_epochs", "manifest_filepath", "is_tarred", "dropout", "n_l_epochs", "p_cache"}

SupportedParams ==
    {"m_epochs", "restore_pc", "manifest_filepath", "tarred_audio_filepaths",
     "is_tarred", "dataset_weights", "dropout", "limit_train_batches",
     "cache_manifest", "n_l_epochs", "p_cache", "cache_prefix", "batch_size"}

\* the keys the configurations of the model are drawn from; the supported keys
\* left out are stored like batch_size and read nowhere in setup_ipl
ConfigKeys ==
    RequiredParams \cup {"restore_pc", "cache_manifest", "cache_prefix", "batch_size",
                         "tarred_audio_filepaths", "unknown_key"}

\* faulty variant: every key of the configuration is stored
StoredParams_all(config) == config

\* _set_ipl_params: the keys stored by the loop over the configuration
StoredParams(config) == config \cap SupportedParams

\* required_params - self._ipl_params.keys()
MissingParams(config) == RequiredParams \ StoredParams(config)

\* the keys logged by the loop
UnsupportedParams(config) == config \ SupportedParams

\* faulty variant: the check fires when there is no trainer
NoStepBudget_untrained == s_trainer = "none"

\* the trainer check of setup_ipl
NoStepBudget == s_trainer = "no_max_steps"

\* setup_ipl derives a cache manifest name: always when tarred, else when no
\* cache_manifest was configured
DerivesNames(params) == s_is_tarred \/ "cache_manifest" \notin params

\* what setup_ipl leaves behind for a configuration with the given keys:
\* [phase, params, warned, derived]
SetupOutcome(config) ==
    IF ~s_has_ipl THEN
        [phase |-> "ok", params |-> {}, warned |-> {}, derived |-> 0]
    ELSE IF NoStepBudget THEN
        [phase |-> "error_max_steps", params |-> {}, warned |-> {}, derived |-> 0]
    ELSE IF MissingParams(config) # {} THEN
        [phase |-> "error_missing", params |-> StoredParams(config),
         warned |-> UnsupportedParams(config), derived |-> 0]
    ELSE LET stored == StoredParams(config)
             withList == IF s_is_tarred THEN stored \cup {"cache_manifest"} ELSE stored
         IN  IF ~DerivesNames(stored) THEN
                 [phase |-> "ok", params |-> stored,
                  warned |-> UnsupportedParams(config), derived |-> 0]
             ELSE IF "cache_prefix" \notin stored THEN
                 [phase |-> "error_key", params |-> withList,
                  warned |-> UnsupportedParams(config), derived |-> 0]
             ELSE
                 [phase |-> "ok",
                  params |-> withList \cup
                             (IF s_is_tarred THEN {"all_cache_manifests"}
                              ELSE {"cache_manifest"}),
                  warned |-> UnsupportedParams(config), derived |-> 1]

SetupResult == SetupOutcome(s_config)

\* how build_cache ends: the builders index _ipl_params with
\* tarred_audio_filepaths (tarred), then restore_pc, then batch_size
BuildCacheResult(params) ==
    IF s_is_tarred /\ "tarred_audio_filepaths" \notin params
    THEN "KeyError_tarred_audio_filepaths"
    ELSE IF "restore_pc" \notin params THEN "KeyError_restore_pc"
    ELSE IF "batch_size" \notin params THEN "KeyError_batch_size"
    ELSE "labeled"

\* the variables construction leaves alone
setupOthers == <<ctlVars, buildVars, tarVars, cacheVars, shardVars, labelVars>>

\* setup_ipl, called from the model's __init__
setup_ipl ==
    /\ s_phase = "init"
    /\ s_phase' = SetupResult.phase
    /\ s_params' = SetupResult.params
    /\ s_warned' = SetupResult.warned
    /\ s_names_derived' = s_names_derived + SetupResult.derived
    /\ UNCHANGED <<setupOthers, s_has_ipl, s_config, s_trainer, s_is_tarred, s_calls,
                   s_build>>

\* on_train_epoch_end of the constructed model calls maybe_do_ipl; a model whose
\* __init__ raised does not exist, and an exception in a build ends the job.
\* The call reaches build_cache once the warm-up epochs are over.
SetupEpochEnd ==
    /\ s_phase = "ok"
    /\ s_build \in {"none", "labeled"}
    /\ s_calls < MaxSetupCalls
    /\ s_calls' = s_calls + 1
    /\ \E builds \in BOOLEAN :
          s_build' = IF s_has_ipl /\ builds THEN BuildCacheResult(s_params) ELSE s_build
    /\ UNCHANGED <<setupOthers, s_has_ipl, s_config, s_trainer, s_is_tarred, s_phase,
                   s_params, s_warned, s_names_derived>>

\* the controller is not observed during construction
CtlIdle ==
    /\ InitCtl
    /\ ~cfg_ipl /\ ~is_tarred /\ ~use_lhotse /\ ~dist_init
    /\ manifest_filepath.isStr

InitSetup ==
    /\ s_has_ipl \in BOOLEAN
    /\ s_config \in (IF s_has_ipl THEN SUBSET ConfigKeys ELSE {{}})
    /\ s_trainer \in {"none", "no_max_steps", "max_steps"}
    /\ s_is_tarred \in BOOLEAN
    /\ s_phase = "init"
    /\ s_params = {}
    /\ s_warned = {}
    /\ s_names_derived = 0
    /\ s_calls = 0
    /\ s_build = "none"

InitSetupSpec == CtlIdle /\ BuildIdle /\ TarIdle /\ CacheIdle /\ ShardIdle /\ LabelIdle /\ InitSetup

NextSetup ==
    \/ setup_ipl
    \/ SetupEpochEnd

\* ========================================================================
\* create_cache_hypotheses: the records that reach the cache manifest
\* ========================================================================
CRanks == 0..(c_world - 1)

\* int(n * f) for the fraction f = num / FracDen
FloorOf(n, num) == (n * num) \div FracDen

RECURSIVE SortedSeq(_)
\* the elements of a set of numbers in increasing order
SortedSeq(S) ==
    IF S = {} THEN <<>>
    ELSE LET least == CHOOSE x \in S : \A y \in S : x <= y
         IN  <<least>> \o SortedSeq(S \ {least})

RECURSIVE Flatten(_)
\* the concatenation of a list of lists
Flatten(lists) ==
    IF Len(lists) = 0 THEN <<>> ELSE Head(lists) \o Flatten(Tail(lists))

\* sample_data: a full build takes the records scaled by the weight, a refresh
\* draws floor(n * p_cache) distinct records with a fresh seed
sample_data(n, weight, whole, p) ==
    IF whole THEN {1..FloorOf(n, weight)}
    ELSE {S \in SUBSET (1..n) : Cardinality(S) = FloorOf(n, p)}

\* the records of gathered_data with their hypotheses as text, rank by rank
Relabeled(data) ==
    Flatten([k \in 1..Len(data) |->
                LET ids == SortedSeq(data[k])
                IN  [i \in 1..Len(ids) |-> [id |-> ids[i], gen |-> 1]]])

\* write_cache_manifest: a full build replaces the cache with the records it
\* is handed, a refresh overwrites the records it is handed and leaves the rest
write_cache_manifest(cache, data, whole) ==
    IF whole THEN Relabeled(data)
    ELSE [i \in 1..Len(cache) |->
             IF \E k \in 1..Len(data) : cache[i].id \in data[k]
             THEN [id |-> cache[i].id, gen |-> 1]
             ELSE cache[i]]

\* gathered_data on rank 0, [update_data] when not distributed
GatheredUpdateData == [k \in 1..c_world |-> c_update[k - 1]]

cacheOthers == <<ctlVars, buildVars, tarVars, setupVars, shardVars, labelVars>>

\* the loop over the manifests on rank r
CSample(r) ==
    /\ c_pc[r] = "sample"
    /\ \E S \in sample_data(c_n, c_weight, c_whole, c_p_cache) :
          c_update' = [c_update EXCEPT ![r] = S]
    /\ c_pc' = [c_pc EXCEPT ![r] = "ready"]
    /\ UNCHANGED <<cacheOthers, c_world, c_whole, c_n, c_weight, c_p_cache, c_cache,
                   c_written>>

\* rank 0 past the gathers, or the only process, writes the cache
CWrite ==
    /\ c_pc[0] = "ready"
    /\ \A q \in CRanks : c_pc[q] # "sample"
    /\ c_cache' = write_cache_manifest(c_cache, GatheredUpdateData, c_whole)
    /\ c_written' = TRUE
    /\ c_pc' = [c_pc EXCEPT ![0] = "done"]
    /\ UNCHANGED <<cacheOthers, c_world, c_whole, c_n, c_weight, c_p_cache, c_update>>

\* the other ranks leave through the second barrier
CReturn(r) ==
    /\ r # 0
    /\ c_pc[r] = "ready"
    /\ c_written
    /\ c_pc' = [c_pc EXCEPT ![r] = "done"]
    /\ UNCHANGED <<cacheOthers, c_world, c_whole, c_n, c_weight, c_p_cache, c_update,
                   c_cache, c_written>>

\* a refresh starts from the cache a full build with weight 1 left
InitCache ==
    /\ c_world \in (IF dist_init THEN 1..MaxWorld ELSE {1})
    /\ c_whole = AtFirstBuild(m_epochs)
    /\ c_n \in 1..MaxLines
    /\ c_weight \in (IF c_whole THEN 0..FracDen ELSE {FracDen})
    /\ c_p_cache \in 0..FracDen
    /\ c_pc = [r \in CRanks |-> "sample"]
    /\ c_update = [r \in CRanks |-> {}]
    /\ c_cache = (IF c_whole THEN <<>> ELSE [i \in 1..c_n |-> [id |-> i, gen |-> 0]])
    /\ c_written = FALSE

InitCacheSpec == BuildEntry /\ BuildIdle /\ TarIdle /\ SetupIdle /\ ShardIdle /\ LabelIdle /\ InitCache

NextCache ==
    \/ \E r \in CRanks : CSample(r)
    \/ CWrite
    \/ \E r \in CRanks : CReturn(r)

\* ========================================================================
\* The per-dataset body of the tarred builders on one worker
\* ========================================================================
\* random.sample(range(n), k): k distinct indices, in the order drawn
Samples(n, k) ==
    {idx \in [1..k -> 0..(n - 1)] : \A i, j \in 1..k : i # j => idx[i] # idx[j]}

\* range(n)
AllLines(n) == [i \in 1..n |-> i - 1]

\* the records of a shard at the given indices, each named (shard, line); the
\* text of a record stands for the record it was read from
RecordsAt(shard, idx) == [i \in 1..Len(idx) |-> <<shard, idx[i]>>]

\* the shard the loop processes next
NextShard == Len(w_temp) + 1

\* position after a loop iteration that leaves t temporary manifests
AfterShard(t) == IF Len(t) = Len(w_sizes) THEN "label" ELSE "loop"

\* handle_multiple_tarr_filepaths: the temporary manifests of the owned shards
\* combined into one, shard order and line order kept
handle_multiple_tarr_filepaths(temps) == Flatten(temps)

\* the manifest handed to the labeling call
TemporaryManifest ==
    IF Len(w_sizes) > 1 THEN handle_multiple_tarr_filepaths(w_temp)
    ELSE w_temp[Len(w_temp)]

shardOthers == <<ctlVars, buildVars, tarVars, setupVars, cacheVars, labelVars>>

\* one iteration of the shard loop of create_tar_cache_hypotheses
WCreateShard ==
    /\ w_pc = "loop"
    /\ w_full
    /\ LET candidates == RecordsAt(NextShard, AllLines(w_sizes[NextShard]))
       IN  /\ w_temp' = Append(w_temp, candidates)
           /\ w_transcriptions' = w_transcriptions \o candidates
           /\ w_pc' = AfterShard(w_temp')
    /\ UNCHANGED <<shardOthers, w_full, w_hybrid, w_sizes, w_p_cache, w_indices,
                   w_update_size, w_passed, w_call>>

\* one iteration of the shard loop of update_tar_cache_hypotheses;
\* transcriptions is emptied when the temporary manifest of the shard is opened
WUpdateShard ==
    /\ w_pc = "loop"
    /\ ~w_full
    /\ LET n == w_sizes[NextShard]
           size == FloorOf(n, w_p_cache)
       IN  \E indices \in Samples(n, size) :
              /\ w_update_size' = size
              /\ w_indices' = Append(w_indices, indices)
              /\ w_temp' = Append(w_temp, RecordsAt(NextShard, indices))
              /\ w_transcriptions' = RecordsAt(NextShard, indices)
              /\ w_pc' = AfterShard(w_temp')
    /\ UNCHANGED <<shardOthers, w_full, w_hybrid, w_sizes, w_p_cache, w_passed, w_call>>

\* the call of generate_pseudo_labels_hybrid or generate_pseudo_labels_ctc
WLabel ==
    /\ w_pc = "label"
    /\ w_passed' = IF w_full /\ w_hybrid THEN NoTargets
                   ELSE [given |-> TRUE, list |-> w_transcriptions]
    /\ w_pc' = "write"
    /\ UNCHANGED <<shardOthers, w_full, w_hybrid, w_sizes, w_p_cache, w_temp,
                   w_transcriptions, w_indices, w_update_size, w_call>>

\* the call of write_tar_cache_manifest
WWrite ==
    /\ w_pc = "write"
    /\ w_call' = IF w_full THEN NoCall
                 ELSE [indices |-> w_indices, update_size |-> w_update_size]
    /\ w_pc' = "done"
    /\ UNCHANGED <<shardOthers, w_full, w_hybrid, w_sizes, w_p_cache, w_temp,
                   w_transcriptions, w_indices, w_update_size, w_passed>>

InitShard ==
    /\ w_full \in BOOLEAN
    /\ w_hybrid \in BOOLEAN
    /\ w_sizes \in UNION {[1..k -> 1..MaxLines] : k \in 1..MaxOwned}
    /\ w_p_cache \in 0..FracDen
    /\ w_pc = "loop"
    /\ w_temp = <<>>
    /\ w_transcriptions = <<>>
    /\ w_indices = <<>>
    /\ w_update_size = 0
    /\ w_passed = NoTargets
    /\ w_call = NoCall

InitShardSpec == TarEntry /\ BuildIdle /\ TarIdle /\ SetupIdle /\ CacheIdle /\ LabelIdle /\ InitShard

NextShardLoop ==
    \/ WCreateShard
    \/ WUpdateShard
    \/ WLabel
    \/ WWrite

\* ========================================================================
\* generate_pseudo_labels_hybrid / generate_pseudo_labels_ctc: one record
\* under beam decoding
\* ========================================================================
\* initial value of wer_dist_min
WER_DIST_MIN == 1000

\* a whitespace-separated piece of a text: its letters in lower case, whether
\* it has an upper-case letter, whether it carries one of the characters ",.?"
Token(w, up, p) == [w |-> w, up |-> up, p |-> p]

\* "a", "b", "A", "a." and a free-standing "."
Tokens ==
    {Token("a", FALSE, FALSE), Token("b", FALSE, FALSE), Token("a", TRUE, FALSE),
     Token("a", FALSE, TRUE), Token("", FALSE, TRUE)}

\* the texts of at most n tokens
Texts(n) == UNION {[1..k -> Tokens] : k \in 0..n}

\* a transcript of WER_DIST_MIN words
LongTarget == [i \in 1..WER_DIST_MIN |-> Token("a", FALSE, FALSE)]

\* str.lower
Lower(text) == [i \in 1..Len(text) |-> [text[i] EXCEPT !.up = FALSE]]

\* rm_punctuation(text, ",.?")
rm_punctuation(text) == [i \in 1..Len(text) |-> [text[i] EXCEPT !.p = FALSE]]

HasLetters(t) == t.w # ""

\* str.split: the non-empty pieces
Split(text) == SelectSeq(text, HasLetters)

\* pred_split_w of a candidate text
CompareWords(pred_text) == Split(rm_punctuation(Lower(pred_text)))

Least(x, y) == IF x <= y THEN x ELSE y

RECURSIVE EditDistance(_, _)
\* editdistance.eval: the Levenshtein distance of two word lists
EditDistance(a, b) ==
    IF Len(a) = 0 THEN Len(b)
    ELSE IF Len(b) = 0 THEN Len(a)
    ELSE Least(EditDistance(Tail(a), Tail(b)) + (IF Head(a) = Head(b) THEN 0 ELSE 1),
               Least(EditDistance(Tail(a), b) + 1, EditDistance(a, Tail(b)) + 1))

\* wer_dist of candidate i
WerDist(target, beams, i) == EditDistance(target, CompareWords(beams[i]))

\* if wer_dist < wer_dist_min
Closer(wer_dist, wer_dist_min) == wer_dist < wer_dist_min

RECURSIVE BeamLoop(_, _, _, _, _)
\* the loop over the candidates from candidate i on
BeamLoop(target, beams, i, min_pred_text, wer_dist_min) ==
    IF i > Len(beams) THEN min_pred_text
    ELSE IF Closer(WerDist(target, beams, i), wer_dist_min)
         THEN BeamLoop(target, beams, i + 1, beams[i], WerDist(target, beams, i))
         ELSE BeamLoop(target, beams, i + 1, min_pred_text, wer_dist_min)

\* the text appended when the record is reconciled with its target
Reconciled(target, beams) == BeamLoop(target, beams, 1, <<>>, WER_DIST_MIN)

labelOthers == <<ctlVars, buildVars, tarVars, setupVars, cacheVars, shardVars>>

\* if restore_pc: ... if target != "": ... else best_hyp
generate_pseudo_labels_hybrid ==
    /\ r_model = "none"
    /\ r_model' = "hybrid"
    /\ r_hypothesis' = IF r_restore_pc
                       THEN IF r_target # <<>> THEN Reconciled(r_target, r_beams)
                            ELSE r_best
                       ELSE r_best
    /\ UNCHANGED <<labelOthers, r_target, r_beams, r_best, r_restore_pc>>

\* if target and restore_pc: ... else best_hyp
generate_pseudo_labels_ctc ==
    /\ r_model = "none"
    /\ r_model' = "ctc"
    /\ r_hypothesis' = IF r_target # <<>> /\ r_restore_pc
                       THEN Reconciled(r_target, r_beams)
                       ELSE r_best
    /\ UNCHANGED <<labelOthers, r_target, r_beams, r_best, r_restore_pc>>

\* a transcript of WER_DIST_MIN words is paired with candidates without words
InitLabel ==
    /\ r_target \in Texts(MaxWords) \cup {LongTarget}
    /\ r_beams \in UNION {[1..k -> Texts(MaxWords)] : k \in 1..MaxBeams}
    /\ Len(r_target) > MaxWords => \A i \in 1..Len(r_beams) : CompareWords(r_beams[i]) = <<>>
    /\ r_best = r_beams[1]
    /\ r_restore_pc \in BOOLEAN
    /\ r_model = "none"
    /\ r_hypothesis = <<>>

InitLabelSpec ==
    CtlIdle /\ BuildIdle /\ TarIdle /\ SetupIdle /\ CacheIdle /\ ShardIdle /\ InitLabel

NextLabel ==
    \/ generate_pseudo_labels_hybrid
    \/ generate_pseudo_labels_ctc

vars == <<ctlVars, buildVars, extVars>>

Init == InitCtl /\ BuildIdle /\ ExtIdle

Next == maybe_do_ipl /\ UNCHANGED <<buildVars, extVars>>

Spec == Init /\ [][Next]_vars

NextBuild ==
    \/ \E r \in Ranks : Label(r)
    \/ \E r \in Ranks : Barrier1(r)
    \/ \E r \in Ranks : GatherData(r)
    \/ \E r \in Ranks : GatherHypotheses(r)
    \/ \E r \in Ranks : WriteBegin(r)
    \/ \E r \in Ranks : WriteEnd(r)
    \/ \E r \in Ranks : Barrier2(r)

InitBuildSpec == BuildEntry /\ InitBuild /\ ExtIdle

SpecBuild == InitBuildSpec /\ [][NextBuild]_vars

SpecTar == InitTarSpec /\ [][NextTar]_vars

SpecSetup == InitSetupSpec /\ [][NextSetup]_vars

SpecCache == InitCacheSpec /\ [][NextCache]_vars

SpecShard == InitShardSpec /\ [][NextShardLoop]_vars

SpecLabel == InitLabelSpec /\ [][NextLabel]_vars

\* ========================================================================
\* Properties of the phase controller (checked under Spec)
\* ========================================================================
NCalls == Len(trace)

Calls == 1..NCalls

\* how often call i performed operation op
CountIn(ops, op) == Cardinality({j \in 1..Len(ops) : ops[j] = op})

Count(i, op) == CountIn(trace[i].ops, op)

\* the operations of the latest call
LastOps == trace[Len(trace)].ops

Did(i, op) == Count(i, op) > 0

CallsWith(op) == {i \in Calls : Did(i, op)}

\* the IPL configuration is present and the counters start non-negative
StartM == cfg_ipl /\ M0 >= 0

StartMK == StartM /\ K0 >= 0

\* C1: starting from m_epochs = M >= 0, each of the first M calls performs no
\* operation at all (no full and no incremental build) and only decrements
\* m_epochs by one; call M+1 performs a full build, and is the first to build.
C1_WarmupThenFullBuild ==
    StartM =>
        \A i \in Calls :
            /\ i <= M0 =>
                  /\ trace[i].ops = <<>>
                  /\ trace[i].m_out = trace[i].m_in - 1
                  /\ trace[i].n_out = trace[i].n_in
            /\ i = M0 + 1 => Did(i, "build_cache_full")

\* M = 2: two calls without any build, the third did the full build
C1_Witness ==
    /\ StartM /\ M0 = 2 /\ NCalls = 3
    /\ trace[1].ops = <<>> /\ trace[2].ops = <<>>
    /\ Did(3, "build_cache_full")

\* C2: starting from m_epochs >= 0 the full build is performed exactly once, in
\* the call entered with m_epochs = 0; that call sets the encoder dropout to the
\* configured value and leaves m_epochs = -1; no other call builds the whole
\* cache or sets the dropout.
C2_FullBuildExactlyOnce ==
    StartM =>
        /\ \A i \in Calls :
              /\ Did(i, "build_cache_full") <=> trace[i].m_in = 0
              /\ Did(i, "set_dropout") <=> Did(i, "build_cache_full")
              /\ Did(i, "build_cache_full") =>
                    /\ Count(i, "build_cache_full") = 1
                    /\ Count(i, "set_dropout") = 1
                    /\ trace[i].m_out = -1
        /\ Cardinality(CallsWith("build_cache_full")) <= 1
        /\ NCalls > M0 => Cardinality(CallsWith("build_cache_full")) = 1
        /\ encoder_dropout = (IF CallsWith("build_cache_full") # {} THEN "ipl" ELSE "initial")

\* the full build happened and three more calls followed it
C2_Witness ==
    /\ StartM
    /\ \E i \in Calls : Did(i, "build_cache_full") /\ NCalls >= i + 3
    /\ encoder_dropout = "ipl"

\* C3: starting from m_epochs >= 0 and n_l_epochs >= 0, update_training_sets is
\* invoked exactly once; that call sets reload_dataloaders_every_n_epochs to 1,
\* and before it the reload policy is untouched.
C3_UpdateTrainingSetsOnce ==
    StartMK =>
        /\ Cardinality(CallsWith("update_training_sets")) <= 1
        /\ NCalls > M0 + K0 => Cardinality(CallsWith("update_training_sets")) = 1
        /\ \A i \in Calls :
              /\ Count(i, "update_training_sets") <= 1
              /\ Did(i, "set_reload_policy") <=> Did(i, "update_training_sets")
        /\ reload_dataloaders_every_n_epochs =
              (IF CallsWith("update_training_sets") # {} THEN RELOAD_EVERY_EPOCH ELSE 0)

\* the training sets were updated and two more ACTIVE calls followed
C3_Witness ==
    /\ StartMK
    /\ \E i \in Calls : Did(i, "update_training_sets") /\ NCalls >= i + 2
    /\ reload_dataloaders_every_n_epochs = RELOAD_EVERY_EPOCH

\* C4: starting from m_epochs = M >= 0 and n_l_epochs = K >= 0,
\* update_training_sets is invoked in call M+K+1 and in no other call, which is
\* K calls after the call of the full build (the same call when K = 0).
C4_UpdateAtCallMPlusKPlus1 ==
    StartMK =>
        /\ \A i \in Calls : Did(i, "update_training_sets") <=> i = M0 + K0 + 1
        /\ \A i, j \in Calls :
              Did(i, "build_cache_full") /\ Did(j, "update_training_sets") => j = i + K0

\* both cases: K > 0 (update in a later call than the full build) and K = 0
C4_Witness ==
    /\ StartMK /\ M0 = 1 /\ K0 = 2 /\ NCalls = 5
    /\ Did(2, "build_cache_full") /\ Did(4, "update_training_sets")

C4_WitnessSameCall ==
    /\ StartMK /\ K0 = 0 /\ NCalls > M0
    /\ Did(M0 + 1, "build_cache_full") /\ Did(M0 + 1, "update_training_sets")

\* everything maybe_do_ipl can change besides the two counters
CtlRest == <<encoder_dropout, reload_dataloaders_every_n_epochs, limit_train_batches,
             manifest_filepath, tarred_audio_filepaths, cache_audio,
             update_limit_train_batches, final_cache_created>>

\* C5: a call entered with m_epochs = -1 and n_l_epochs > 0 only decrements
\* n_l_epochs by one: no build, no update_training_sets, no change of the reload
\* policy, no barrier, no setup_training_data.
C5_DropoutHoldOnlyDecrements ==
    [][(cfg_ipl /\ m_epochs = -1 /\ n_l_epochs > 0) =>
          /\ n_l_epochs' = n_l_epochs - 1
          /\ m_epochs' = m_epochs
          /\ LastOps' = <<>>
          /\ UNCHANGED CtlRest]_vars

\* a call entered in DROPOUT_HOLD has been made
C5_Witness ==
    /\ NCalls > 0 /\ cfg_ipl
    /\ trace[NCalls].m_in = -1 /\ trace[NCalls].n_in > 0
    /\ n_l_epochs = trace[NCalls].n_in - 1

\* position of the first occurrence of op among the operations of call i
PosOf(i, op) == CHOOSE j \in 1..Len(trace[i].ops) : trace[i].ops[j] = op

\* C6: every call entered with m_epochs = -1 and n_l_epochs <= 0 performs exactly
\* one incremental cache refresh, no full build, and then sets up the training
\* data again (as its last operation).
C6_ActiveRefreshesEveryCall ==
    cfg_ipl =>
        \A i \in Calls :
            (trace[i].m_in = -1 /\ trace[i].n_in <= 0) =>
                /\ Count(i, "build_cache_incremental") = 1
                /\ ~Did(i, "build_cache_full")
                /\ Count(i, "setup_training_data") = 1
                /\ trace[i].ops[Len(trace[i].ops)] = "setup_training_data"
                /\ PosOf(i, "build_cache_incremental") < PosOf(i, "setup_training_data")

\* three consecutive ACTIVE calls after a start from non-negative counters
C6_Witness ==
    /\ StartMK /\ NCalls >= 3
    /\ \A i \in (NCalls - 2)..NCalls :
          /\ trace[i].m_in = -1 /\ trace[i].n_in <= 0
          /\ Did(i, "build_cache_incremental")

\* C7: once m_epochs = -1 and n_l_epochs = -1, a further call leaves m_epochs,
\* n_l_epochs, the training manifest list, the tar-path list and the reload
\* policy as they were, and performs an incremental build.
C7_ActiveIdempotentOnState ==
    [][(cfg_ipl /\ m_epochs = -1 /\ n_l_epochs = -1) =>
          /\ UNCHANGED <<m_epochs, n_l_epochs, manifest_filepath,
                         tarred_audio_filepaths, reload_dataloaders_every_n_epochs>>
          /\ CountIn(LastOps', "build_cache_incremental") = 1]_vars

\* a call was made in ACTIVE after the training sets had been updated
C7_Witness ==
    /\ StartMK /\ NCalls >= 2
    /\ CallsWith("update_training_sets") # {}
    /\ trace[NCalls].m_in = -1 /\ trace[NCalls].n_in = -1
    /\ Did(NCalls, "build_cache_incremental")

\* C8: neither counter ever increases; starting from non-negative values
\* m_epochs never goes below -1 and stays -1 once reached, and n_l_epochs never
\* goes below -1.
C8_CountersMonotonic ==
    [][/\ m_epochs' <= m_epochs
       /\ n_l_epochs' <= n_l_epochs
       /\ StartMK =>
             /\ m_epochs' >= -1
             /\ n_l_epochs' >= N_L_DONE
             /\ m_epochs = -1 => m_epochs' = -1]_vars

\* both counters have reached their final value -1 from positive starts
C8_Witness ==
    /\ StartMK /\ M0 > 0 /\ K0 > 0
    /\ m_epochs = -1 /\ n_l_epochs = N_L_DONE
    /\ NCalls >= M0 + K0 + 2

\* ========================================================================
\* Properties of one non-tarred build (checked under SpecBuild)
\* ========================================================================
\* rank r has obtained its hypotheses
Labeled(r) == pc[r] # "label"

\* the labeling returned another number of hypotheses than candidates
Mismatch(r) == Labeled(r) /\ hypotheses[r] # n_update_data

\* C9: if the labeling returns a number of hypotheses different from the number
\* of candidate records, write_cache_manifest is never invoked for that build.
C9_MismatchNeverMerged ==
    (\E r \in Ranks : Mismatch(r)) => cache_writes = <<>>

\* ranks whose write_cache_manifest call has begun
Writers == {cache_writes[i].rank : i \in 1..Len(cache_writes)}

\* rank 0 is past the barrier that precedes the gathers
PastBarrier1(r) == pc[r] \notin {"label", "barrier1"}

\* C10: in a distributed non-tarred build only rank 0 writes the cache manifest;
\* rank 0 gets past the barrier before the gathers (and so to the merge) only
\* when every rank has finished labeling; no rank returns from the build before
\* rank 0's write has been made and has finished.
C10_Rank0WritesBetweenBarriers ==
    dist_init =>
        /\ Writers \subseteq {0}
        /\ writing \subseteq {0}
        /\ Len(cache_writes) <= 1
        /\ PastBarrier1(0) => \A r \in Ranks : Labeled(r)
        /\ cache_writes # <<>> =>
              /\ \A r \in Ranks : Labeled(r)
              /\ Len(cache_writes[1].hyps) = world_size
              /\ \A r \in Ranks : cache_writes[1].hyps[r + 1] = hypotheses[r]
        /\ \A r \in Ranks :
              pc[r] = "done" => (Len(cache_writes) = 1 /\ writing = {})

\* a build of several ranks has ended on every rank, rank 0 having written
C10_Witness ==
    /\ dist_init /\ world_size >= 2
    /\ \A r \in Ranks : pc[r] = "done"
    /\ Writers = {0}

\* rank 0 is inside the write while another rank waits at the closing barrier
C10_WitnessWaiting ==
    /\ dist_init /\ world_size >= 2
    /\ writing = {0}
    /\ \E r \in Ranks : r # 0 /\ pc[r] = "barrier2"

\* ========================================================================
\* Properties of the tarred builders (checked under SpecTar)
\* ========================================================================
\* the cache files written in build b
WrittenIn(b) == {e.path : e \in {x \in t_log : x.build = b}}

\* the cache files rank r has written so far
WrittenBy(r) == {e.path : e \in {x \in t_log : x.rank = r}}

\* C11: in tarred mode no cache file is ever written by more than one rank, over
\* all datasets and builds (full or incremental), nor held open by two ranks.
C11_RanksWriteDisjointFiles ==
    \A r, q \in TRanks :
        r # q =>
            /\ WrittenBy(r) \cap WrittenBy(q) = {}
            /\ t_writing[r] \cap t_writing[q] = {}

\* two ranks have each written cache files, in the full build and in a refresh
C11_Witness ==
    /\ t_world >= 2
    /\ \A r \in {0, 1} : \A b \in {0, 1} :
          \E e \in t_log : e.rank = r /\ e.build = b
    /\ \E d \in DOMAIN t_shards : t_shards[d] >= 3

\* the full build has returned on every rank
FullBuildComplete ==
    \A r \in TRanks : t_build[r] > 0 \/ t_pc[r] \in {"return", "done"}

\* the input shards of all datasets
AllShards ==
    UNION {{ManifestShard(d, i) : i \in 0..(t_shards[d] - 1)} : d \in DOMAIN t_shards}

\* '<prefix>_cache_<shard filename>' in the directory of shard m
MirrorOf(m) == [dir |-> m.dir, cache |-> 1, shard |-> m.shard]

\* C12: once the full build has completed on all ranks the cache files mirror
\* the input shards 1:1: every shard has exactly one cache file, named after it
\* in its directory, written by exactly one rank, and there is no other file.
C12_CacheFilesMirrorShards ==
    FullBuildComplete =>
        /\ t_files = {MirrorOf(m) : m \in AllShards}
        /\ Cardinality(t_files) = Cardinality(AllShards)
        /\ \A m \in AllShards :
              Cardinality({e \in t_log : e.build = 0 /\ e.path = MirrorOf(m)}) = 1

\* two ranks have completed the full build of three shards (not divisible)
C12_Witness ==
    /\ FullBuildComplete
    /\ t_world = 2
    /\ \E d \in DOMAIN t_shards : t_shards[d] = 3
    /\ Cardinality(t_files) >= 3

\* rank r has computed its shard ownership for the dataset it is in
HasExpanded(r) ==
    t_pc[r] \in {"label", "write", "writing", "barrier_out", "next", "failed"}

\* C13: in both tarred builders no rank begins the shard-ownership computation
\* for dataset k+1 before every rank has finished writing dataset k.
C13_NoExpandBeforeAllWrote ==
    \A r, q \in TRanks :
        (HasExpanded(r) /\ t_ds[r] > 1) =>
            <<t_build[r], t_ds[r] - 1>> \in t_finished[q]

\* a rank of several has expanded the second dataset, in the full build
C13_Witness ==
    /\ t_world >= 2
    /\ \E r \in TRanks : HasExpanded(r) /\ t_ds[r] = 2 /\ t_build[r] = 0

\* ... and in a refresh
C13_WitnessRefresh ==
    /\ t_world >= 2
    /\ \E r \in TRanks : HasExpanded(r) /\ t_ds[r] = 2 /\ t_build[r] = 1

\* C14: a refresh writes only cache paths of all_cache_manifests, these are
\* paths the full build wrote, and the set of cache files does not change once
\* the full build is complete.
C14_RefreshKeepsCachePaths ==
    /\ \A e \in t_log :
          e.build > 0 =>
              /\ e.path \in WrittenIn(0)
              /\ e.path \in Range(all_cache_manifests(e.path.dir))
    /\ FullBuildComplete => t_files = WrittenIn(0)

\* the second refresh has written cache files on two ranks
C14_Witness ==
    /\ t_world >= 2
    /\ \A r \in {0, 1} : \E e \in t_log : e.rank = r /\ e.build = 2

\* ========================================================================
\* update_training_sets (checked under Spec)
\* ========================================================================
\* the data sources an option value names, in order
Entries(v) == [i \in 1..Len(v.items) |-> v.items[i].paths[1]]

\* the cache sources update_training_sets adds to the manifests
CacheEntries ==
    IF is_tarred THEN [d \in 1..ipl_ndatasets |-> FinalCachePath(d)]
    ELSE <<CacheManifest>>

\* a list value keeps its elements as they are at the front of the new list
KeepsItems(old, new) ==
    /\ ~new.isStr
    /\ Len(new.items) >= Len(old.items)
    /\ ~old.isStr => SubSeq(new.items, 1, Len(old.items)) = old.items

\* the step is a maybe_do_ipl call that invoked update_training_sets
UpdateStep ==
    /\ trace' # trace
    /\ CountIn(LastOps', "update_training_sets") = 1

\* C19: update_training_sets keeps every training data source, in order, and
\* appends the cache sources after them: the manifest list is the prior entries
\* followed by the cache manifest(s), and in tarred mode the tar-path list is the
\* prior entries followed by the IPL tar paths, for a prior string or list.
C19_UpdateAppendsCacheSources ==
    [][UpdateStep =>
          /\ KeepsItems(manifest_filepath, manifest_filepath')
          /\ Entries(manifest_filepath') = Entries(manifest_filepath) \o CacheEntries
          /\ is_tarred =>
                /\ KeepsItems(tarred_audio_filepaths, tarred_audio_filepaths')
                /\ Entries(tarred_audio_filepaths') =
                      Entries(tarred_audio_filepaths) \o Entries(ipl_tarred_audio_filepaths)
          /\ ~is_tarred => tarred_audio_filepaths' = tarred_audio_filepaths]_vars

\* the update has run in tarred mode: the training tar file first, then the
\* IPL tar file
C19_Witness ==
    /\ cfg_ipl /\ is_tarred
    /\ CallsWith("update_training_sets") # {}
    /\ Entries(tarred_audio_filepaths) = <<<<"train_tar", 1>>, <<"ipl_tar", 1>>>>
    /\ Len(Entries(manifest_filepath)) >= 2

\* ... and in non-tarred mode from a list of two manifests
C19_WitnessList ==
    /\ cfg_ipl /\ ~is_tarred
    /\ CallsWith("update_training_sets") # {}
    /\ Entries(manifest_filepath) =
          <<<<"train_manifest", 1>>, <<"train_manifest", 2>>, CacheManifest>>

\* ========================================================================
\* Properties of construction (checked under SpecSetup)
\* ========================================================================
\* C20: when the ipl configuration lacks one of m_epochs, manifest_filepath,
\* is_tarred, dropout, n_l_epochs, p_cache, setup_ipl ends in an error, no
\* maybe_do_ipl call ever runs and no cache manifest name is derived.
C20_MissingRequiredKeyFailsSetup ==
    (/\ s_has_ipl
     /\ s_phase # "init"
     /\ \E k \in {"m_epochs", "manifest_filepath", "is_tarred", "dropout",
                  "n_l_epochs", "p_cache"} : k \notin s_config)
    => /\ s_phase \in {"error_missing", "error_max_steps"}
       /\ s_names_derived = 0
       /\ s_calls = 0

\* setup_ipl has raised for a configuration that lacks only p_cache, with a
\* step budget configured
C20_Witness ==
    /\ s_has_ipl
    /\ s_trainer = "max_steps"
    /\ s_config = ConfigKeys \ {"p_cache"}
    /\ s_phase = "error_missing"

\* ========================================================================
\* Properties of the cache content (checked under SpecCache)
\* ========================================================================
\* records of the cache carrying a new hypothesis
Replaced == {i \in 1..Len(c_cache) : c_cache[i].gen = 1}

C17_TargetsAlignWithCombinedManifest ==
    w_pc \in {"write", "done"}
    => /\ w_passed.given
       /\ w_passed.list = TemporaryManifest

\* ========================================================================
\* Properties of the reconciliation (checked under SpecLabel)
\* ========================================================================
\* the least distance of a candidate to the target
MinDist == CHOOSE d \in {WerDist(r_target, r_beams, i) : i \in 1..Len(r_beams)} :
              \A j \in 1..Len(r_beams) : d <= WerDist(r_target, r_beams, j)

\* the first candidate at the least distance
FirstClosest == CHOOSE i \in 1..Len(r_beams) :
                   /\ WerDist(r_target, r_beams, i) = MinDist
                   /\ \A j \in 1..(i - 1) : WerDist(r_target, r_beams, j) # MinDist

Reconciles == r_restore_pc /\ r_target # <<>>

\* C18: with a non-empty target and restore_pc the text appended is that of
\* the first candidate whose normalized words are at the least edit distance
\* from the target, hence the text of a candidate; otherwise it is the top
\* hypothesis.
C18_ReconcilePicksClosestCandidate ==
    r_model \in {"hybrid", "ctc"}
    => IF Reconciles
       THEN /\ r_hypothesis = r_beams[FirstClosest]
            /\ \E i \in 1..Len(r_beams) : r_hypothesis = r_beams[i]
       ELSE r_hypothesis = r_best

\* the same for a record with a candidate closer than WER_DIST_MIN words
C18_BelowInitialDistance ==
    (r_model \in {"hybrid", "ctc"} /\ Reconciles /\ MinDist < WER_DIST_MIN)
    => r_hypothesis = r_beams[FirstClosest]

\* C21: with restore_pc left out of the ipl configuration, setup succeeds and a
\* build reached by a later maybe_do_ipl call runs its labeling (with
\* reconciliation off) instead of failing on the missing key.
C21_RestorePcDefaultsToFalse ==
    (/\ s_has_ipl
     /\ "restore_pc" \notin s_config
     /\ {"batch_size", "tarred_audio_filepaths"} \subseteq s_config
     /\ s_phase = "ok"
     /\ s_calls > 0
     /\ s_build # "none")
    => s_build = "labeled"

\* the keys of the configuration that the mixin does not know
UnknownKeys == s_config \ SupportedParams

C23_NoStepBudgetFailsFast ==
    (s_has_ipl /\ s_trainer = "no_max_steps" /\ s_phase # "init")
    => /\ s_phase = "error_max_steps"
       /\ s_params = {}
       /\ s_names_derived = 0
       /\ s_calls = 0

\* setup_ipl has raised for a complete configuration without a step budget
C23_Witness ==
    /\ s_has_ipl
    /\ s_trainer = "no_max_steps"
    /\ RequiredParams \subseteq s_config
    /\ s_phase = "error_max_steps"

\* ========================================================================
\* Properties of the whole tarred call on every rank (checked under SpecTar)
\* ========================================================================
\* C24: no rank waits at a barrier that another rank, having failed, will
\* never enter; so every maybe_do_ipl call can return on all ranks.
C24_NoRankWaitsForFailedRank ==
    \A r, q \in TRanks :
        (IsBarrier(t_pc[r]) /\ t_pc[q] = "failed") => t_arrived[q] >= t_arrived[r]

TDatasets == 1..Len(t_shards)

\* every dataset has its final cache manifest
FinalsComplete == \A d \in TDatasets : \E f \in t_final : f.ds = d

\* C25: in the distributed tarred non-lhotse run only rank 0 creates the final
\* cache manifests; while it reads the per-shard cache files of a dataset no
\* rank is writing and every rank has finished the writes of the preceding
\* build; and a rank sets up its training data only after all final cache
\* manifests were created.
C25_Rank0CombinesBetweenBarriers ==
    dist_init =>
        /\ \A f \in t_final : f.rank = 0
        /\ \A x \in t_reading :
              /\ x.rank = 0
              /\ \A q \in TRanks :
                    /\ t_writing[q] = {}
                    /\ \A d \in TDatasets : <<t_build[x.rank], d>> \in t_finished[q]
        /\ \A r \in TRanks :
              (t_pc[r] = "setup" \/ t_setups[r] > 0) => (FinalsComplete /\ t_reading = {})

\* two ranks, two datasets: rank 1 has set up its training data after rank 0
\* created both final cache manifests
C25_Witness ==
    /\ dist_init /\ t_world = 2 /\ Len(t_shards) = 2
    /\ t_setups[1] > 0
    /\ FinalsComplete

\* rank 0 is reading the shard caches while rank 1 waits at the barrier
C25_WitnessReading ==
    /\ dist_init /\ t_world = 2
    /\ t_reading # {}
    /\ t_pc[1] = "barrier_combine"

\* ========================================================================
\* Further properties of the controller (checked under Spec)
\* ========================================================================
\* C26: starting from m_epochs >= 0, a call that invokes update_training_sets
\* is the call of the full build or a later one, and within the same call the
\* full build comes first.
C26_UpdateNeverBeforeFullBuild ==
    StartM =>
        \A j \in CallsWith("update_training_sets") :
            \E i \in CallsWith("build_cache_full") :
                /\ i <= j
                /\ i = j => PosOf(i, "build_cache_full") < PosOf(j, "update_training_sets")

\* M = 1, K = 1: full build in call 2, update_training_sets in call 3
C26_Witness ==
    /\ StartM /\ M0 = 1 /\ K0 = 1 /\ NCalls = 3
    /\ Did(2, "build_cache_full") /\ ~Did(2, "update_training_sets")
    /\ Did(3, "update_training_sets")

\* M = 0, K = 0: both in the first call
C26_WitnessSameCall ==
    /\ StartM /\ M0 = 0 /\ K0 = 0 /\ NCalls = 1
    /\ PosOf(1, "build_cache_full") < PosOf(1, "update_training_sets")

\* a maybe_do_ipl call that does not invoke update_training_sets
OtherCallStep == trace' # trace /\ CountIn(LastOps', "update_training_sets") = 0

\* C27: in tarred non-lhotse mode the final cache manifests are created in the
\* update_training_sets call, one per dataset, and never again; every other
\* call, the incremental refreshes included, creates none and leaves the
\* manifest list of the training configuration as it is.
C27_FinalCacheWrittenOnce ==
    [][(is_tarred /\ ~use_lhotse) =>
          /\ UpdateStep => /\ final_cache_created = 0
                           /\ final_cache_created' = ipl_ndatasets
          /\ OtherCallStep => /\ final_cache_created' = final_cache_created
                              /\ manifest_filepath' = manifest_filepath]_vars

\* two datasets: the final manifests were created once and two refreshes
\* followed
C27_Witness ==
    /\ is_tarred /\ ~use_lhotse /\ ipl_ndatasets = 2
    /\ final_cache_created = 2
    /\ \E i \in Calls :
          /\ Did(i, "update_training_sets")
          /\ NCalls >= i + 2
          /\ Did(i + 1, "build_cache_incremental")
          /\ Did(i + 2, "build_cache_incremental")
====
